---------------------------- MODULE Spec2Model ----------------------------
(***************************************************************************)
(* The OLAP cubing pipeline of analytics_project/OLAP:                     *)
(*   cubing.py            ingest_sales_data_from_dw, create_olap_cube,     *)
(*                        generate_column_names, write_cube_to_csv, main   *)
(*   revenue_by_region.py load_olap_cube, analyze_top_region,              *)
(*                        visualize_sales_by_region, main                  *)
(*                                                                         *)
(* Python strings are sequences of one-character strings.  Python values   *)
(* (column labels and table cells) are tagged records, so that the int 1   *)
(* and the str "1" are different values with the same formatted text.      *)
(* A DataFrame is [columns, rows]: the column labels in order and the rows *)
(* as positional tuples (a frame may hold two columns of the same label).  *)
(* Objects that the code shares by reference live in a heap (a sequence of *)
(* objects, a reference being an index), so that an in-place update of an  *)
(* argument is visible to the caller.                                      *)
(***************************************************************************)
EXTENDS Integers, Sequences, FiniteSets, TLC

VARIABLES
    pc,            \* position of cubing.main (or of the caller of one function)
    conn,          \* the sqlite3 connection of ingest_sales_data_from_dw
    log,           \* the records handed to the logger, oldest first
    sales_df,      \* cubing.main's sales_df / the caller's table
    dimensions,    \* the caller's list of dimensions
    metrics,       \* the caller's dict of metrics
    olap_cube,     \* what create_olap_cube returned
    column_names,  \* what generate_column_names returned
    fresh,         \* whether the returned object is none of the arguments
    cube_file,     \* OLAP_OUTPUT_DIR / multidimensional_olap_cube.csv
    pc2,           \* position of revenue_by_region.main
    cube_df,       \* revenue_by_region.main's cube_df
    top_regions,   \* revenue_by_region.main's top_regions
    chart          \* RESULTS_OUTPUT_DIR / revenue_by_region.png

vars == <<pc, conn, log, sales_df, dimensions, metrics, olap_cube,
          column_names, fresh, cube_file, pc2, cube_df, top_regions, chart>>

----------------------------------------------------------------------------
(* Bounds of the model *)

MaxRows == 2
MaxDims == 2
MaxFuncs == 2
FracDigits == 1

----------------------------------------------------------------------------
(* Python values *)

S(chars) == [t |-> "str", s |-> chars]
I(n) == [t |-> "int", n |-> n]
F(m) == [t |-> "float", m |-> m]
L(xs) == [t |-> "list", xs |-> xs]
Null == [t |-> "null"]
Unset == [t |-> "unset"]
Raised == [t |-> "raised"]

IsStr(v) == v.t = "str"
IsInt(v) == v.t = "int"
IsNull(v) == v.t = "null"

\* floats carry FracDigits decimal digits: F(m) is m / Scale
RECURSIVE Pow10(_)
Pow10(k) == IF k = 0 THEN 1 ELSE 10 * Pow10(k - 1)

Scale == Pow10(FracDigits)

----------------------------------------------------------------------------
(* Strings *)

\* body(v) for the value v of e, which is computed once
Bind(e, body(_)) == CHOOSE y \in {body(v) : v \in {e}} : TRUE

Digits == <<"0", "1", "2", "3", "4", "5", "6", "7", "8", "9">>

\* the characters of the model in code point order
Ascii == <<" ", "\"", ",", ".", "0", "1", "2", "3", "4", "5", "6", "7", "8",
           "9", "A", "E", "N", "W", "[", "]", "_", "a", "c", "d", "e", "g",
           "i", "l", "m", "n", "o", "p", "r", "s", "t", "u">>

Ord(c) == CHOOSE i \in 1..Len(Ascii) : Ascii[i] = c

\* a < b for two str: at the first position where they differ, or a is a
\* proper prefix of b
StrLess(a, b) ==
    \/ Len(a) < Len(b) /\ \A i \in 1..Len(a) : a[i] = b[i]
    \/ \E i \in 1..Len(a) :
          /\ i <= Len(b)
          /\ \A j \in 1..(i - 1) : a[j] = b[j]
          /\ Ord(a[i]) < Ord(b[i])

\* str(n) of a non-negative int
RECURSIVE IntToStr(_)
IntToStr(n) ==
    IF n < 10 THEN <<Digits[n + 1]>>
    ELSE IntToStr(n \div 10) \o <<Digits[(n % 10) + 1]>>

\* what an f-string writes for a value: str(v)
Format(v) == IF IsStr(v) THEN v.s ELSE IntToStr(v.n)

\* str.rstrip("_"): up to the last character that is no underscore
rstrip(s) ==
    SubSeq(s, 1, Cardinality({i \in 1..Len(s) : \E j \in i..Len(s) : s[j] # "_"}))

str_sale_id == <<"s", "a", "l", "e", "_", "i", "d">>
str_sale_ids == <<"s", "a", "l", "e", "_", "i", "d", "s">>
str_region == <<"r", "e", "g", "i", "o", "n">>
str_product_id == <<"p", "r", "o", "d", "u", "c", "t", "_", "i", "d">>
str_customer_id == <<"c", "u", "s", "t", "o", "m", "e", "r", "_", "i", "d">>
str_sale_amount == <<"s", "a", "l", "e", "_", "a", "m", "o", "u", "n", "t">>
str_sale_amount_sum == str_sale_amount \o <<"_", "s", "u", "m">>
str_TotalSales == <<"T", "o", "t", "a", "l", "S", "a", "l", "e", "s">>
str_sum == <<"s", "u", "m">>
str_mean == <<"m", "e", "a", "n">>
str_count == <<"c", "o", "u", "n", "t">>
str_min == <<"m", "i", "n">>
str_max == <<"m", "a", "x">>

----------------------------------------------------------------------------
(* The heap *)

Alloc(heap, obj) == [heap |-> Append(heap, obj), ref |-> Len(heap) + 1]

\* list.copy() returning the list itself
list_copy_alias(heap, ref) == [heap |-> heap, ref |-> ref]

\* list.copy(): a new list with the same elements
list_copy(heap, ref) == Alloc(heap, heap[ref])

\* list.append(x), once per element of xs
list_extend(heap, ref, xs) == [heap EXCEPT ![ref] = @ \o xs]

----------------------------------------------------------------------------
(* cubing.generate_column_names *)

\* A metrics dict is the sequence of its items in insertion order, each
\* [column, list, fs]: list says whether the value is a list of function
\* names (fs) or a single name (fs = <<name>>).

EntryNames(e) == [i \in 1..Len(e.fs) |-> S(Format(e.column) \o <<"_">> \o e.fs[i])]

\* the names of the items from the i-th on
RECURSIVE MetricNamesFrom(_, _)
MetricNamesFrom(m, i) ==
    IF i > Len(m) THEN <<>> ELSE EntryNames(m[i]) \o MetricNamesFrom(m, i + 1)

MetricNames(m) == MetricNamesFrom(m, 1)

\* the comprehension without the rstrip
StripAllNone(names) == names

\* [col.rstrip("_") for col in column_names]
StripAll(names) == [i \in 1..Len(names) |-> S(rstrip(names[i].s))]

Entry(level, fn) == [level |-> level, fn |-> fn]

\* Returns [heap, raised, ret, log]: the heap after the call, whether the
\* call raised (rstrip on a label that is no str), the returned reference
\* and the records it logged.
generate_column_names(heap, dims, mets) ==
    Bind(list_copy(heap, dims), LAMBDA c :
    Bind(list_extend(c.heap, c.ref, MetricNames(heap[mets])), LAMBDA h :
        IF \E i \in 1..Len(h[c.ref]) : ~IsStr(h[c.ref][i])
        THEN [heap |-> h, raised |-> TRUE, ret |-> 0, log |-> <<>>]
        ELSE Bind(Alloc(h, StripAll(h[c.ref])), LAMBDA r :
                 [heap |-> r.heap, raised |-> FALSE, ret |-> r.ref,
                  log |-> <<Entry("info", "generate_column_names")>>])))

----------------------------------------------------------------------------
(* DataFrames *)

Frame(columns, rows) == [columns |-> columns, rows |-> rows]

IsFrame(v) == "columns" \in DOMAIN v

Positions(df, label) == {i \in 1..Len(df.columns) : df.columns[i] = label}

\* a label that selects exactly one column
HasColumn(df, label) == Cardinality(Positions(df, label)) = 1

ColIdx(df, label) == CHOOSE i \in Positions(df, label) : TRUE

\* the rows at the positions of keep, in their original relative order
RowsAt(rows, keep) ==
    [p \in 1..Cardinality(keep) |->
        rows[CHOOSE i \in keep : Cardinality({q \in keep : q < i}) = p - 1]]

\* the order of sort=True and of sort_values on one column's values
ValLess(a, b) == IF IsInt(a) THEN a.n < b.n ELSE StrLess(a.s, b.s)

\* tuples of values in lexicographic order
KeyLess(a, b) ==
    \E i \in 1..Len(a) :
        /\ \A j \in 1..(i - 1) : a[j] = b[j]
        /\ ValLess(a[i], b[i])

\* a set of keys in ascending order
SortKeys(keys) ==
    [p \in 1..Cardinality(keys) |->
        CHOOSE k \in keys : Cardinality({x \in keys : KeyLess(x, k)}) = p - 1]

KeyOf(row, idx) == [i \in 1..Len(idx) |-> row[idx[i]]]

\* DataFrame.groupby(keys) has dropna=True: a row with a null key value is
\* in no group
GroupedRows(df, idx) ==
    {r \in 1..Len(df.rows) : \A i \in 1..Len(idx) : ~IsNull(df.rows[r][idx[i]])}

\* the group keys in the order of the result (sort=True)
GroupKeys(df, idx) ==
    SortKeys({KeyOf(df.rows[r], idx) : r \in GroupedRows(df, idx)})

\* the rows of one group, in their original relative order
GroupOf(df, idx, key) ==
    RowsAt(df.rows, {r \in GroupedRows(df, idx) : KeyOf(df.rows[r], idx) = key})

Column(rows, i) == [r \in 1..Len(rows) |-> rows[r][i]]

----------------------------------------------------------------------------
(* Aggregation functions over the cells of one group *)

AggFuncs == {str_sum, str_mean, str_count, str_min, str_max}

NonNull(cells) == {i \in 1..Len(cells) : ~IsNull(cells[i])}

\* the sum of the int cells from the i-th on
RECURSIVE SumIntsFrom(_, _)
SumIntsFrom(cells, i) ==
    IF i > Len(cells) THEN 0
    ELSE (IF IsInt(cells[i]) THEN cells[i].n ELSE 0) + SumIntsFrom(cells, i + 1)

SumInts(cells) == SumIntsFrom(cells, 1)

\* sum / count as a float of FracDigits digits, rounded half up
Mean(cells) ==
    IF NonNull(cells) = {} THEN Null
    ELSE F((2 * SumInts(cells) * Scale + Cardinality(NonNull(cells)))
            \div (2 * Cardinality(NonNull(cells))))

Extreme(cells, least) ==
    IF NonNull(cells) = {} THEN Null
    ELSE cells[CHOOSE i \in NonNull(cells) : \A j \in NonNull(cells) :
                   IF least THEN cells[i].n <= cells[j].n
                   ELSE cells[i].n >= cells[j].n]

AggCell(func, cells) ==
    CASE func = str_sum -> I(SumInts(cells))
      [] func = str_mean -> Mean(cells)
      [] func = str_count -> I(Cardinality(NonNull(cells)))
      [] func = str_min -> Extreme(cells, TRUE)
      [] func = str_max -> Extreme(cells, FALSE)

----------------------------------------------------------------------------
(* cubing.create_olap_cube *)

Tuple(xs) == [t |-> "tuple", xs |-> xs]

\* the (metric, function) pairs in the order of the result's columns
RECURSIVE PairsFrom(_, _)
PairsFrom(m, i) ==
    IF i > Len(m) THEN <<>>
    ELSE [f \in 1..Len(m[i].fs) |-> [column |-> m[i].column, func |-> m[i].fs[f],
                                     list |-> m[i].list]]
         \o PairsFrom(m, i + 1)

Pairs(m) == PairsFrom(m, 1)

\* the columns of grouped.agg(metrics).reset_index(): hierarchical when some
\* metric is given a list of functions
AggColumns(dims, m) ==
    IF \E i \in 1..Len(m) : m[i].list
    THEN [i \in 1..Len(dims) |-> Tuple(<<dims[i], S(<<>>)>>)]
         \o [i \in 1..Len(Pairs(m)) |->
                Tuple(<<Pairs(m)[i].column,
                        S(IF Pairs(m)[i].list THEN Pairs(m)[i].func ELSE <<>>)>>)]
    ELSE dims \o [i \in 1..Len(m) |-> m[i].column]

\* the aggregates of one group, metric by metric and function by function
AggCells(df, pairs, rows) ==
    [i \in 1..Len(pairs) |->
        AggCell(pairs[i].func, Column(rows, ColIdx(df, pairs[i].column)))]

DimIdx(df, dims) == [i \in 1..Len(dims) |-> ColIdx(df, dims[i])]

\* grouped.agg(metrics).reset_index(): one row per group
Agg(df, dims, m) ==
    Bind(DimIdx(df, dims), LAMBDA idx :
    Bind(GroupKeys(df, idx), LAMBDA keys :
    Bind(Pairs(m), LAMBDA pairs :
        Frame(AggColumns(dims, m),
              [g \in 1..Len(keys) |->
                  Bind(GroupOf(df, idx, keys[g]), LAMBDA rows :
                      keys[g] \o AggCells(df, pairs, rows))]))))

\* grouped["sale_id"].apply(list).reset_index(drop=True): one list per group,
\* indexed 0, 1, ... in the order of the groups
SaleIdLists(df, dims) ==
    Bind(DimIdx(df, dims), LAMBDA idx :
    Bind(GroupKeys(df, idx), LAMBDA keys :
        [g \in 1..Len(keys) |->
            L(Column(GroupOf(df, idx, keys[g]), ColIdx(df, S(str_sale_id))))]))

\* cube[label] = series: a new last column, aligned on the row index
SetColumn(cube, label, series) ==
    Frame(Append(cube.columns, label),
          [r \in 1..Len(cube.rows) |->
              Append(cube.rows[r], IF r <= Len(series) THEN series[r] ELSE Null)])

\* what pandas refuses: no keys, a key or a metric that is no column of the
\* frame (or is one twice), a metric that is a key, an unknown or repeated
\* function name, no sale_id column
AggRaises(df, dims, m) ==
    \/ dims = <<>>
    \/ m = <<>>
    \/ \E i \in 1..Len(dims) : ~HasColumn(df, dims[i])
    \/ \E i, j \in 1..Len(dims) : i # j /\ dims[i] = dims[j]
    \/ \E i \in 1..Len(m) :
          \/ ~HasColumn(df, m[i].column)
          \/ \E d \in 1..Len(dims) : dims[d] = m[i].column
          \/ \E f \in 1..Len(m[i].fs) : m[i].fs[f] \notin AggFuncs
          \/ \E f, g \in 1..Len(m[i].fs) : f # g /\ m[i].fs[f] = m[i].fs[g]
    \/ ~HasColumn(df, S(str_sale_id))

\* Returns [heap, raised, ret, log] for references sales, dims, mets into
\* heap.  Whatever is raised inside is logged as an error and raised again.
create_olap_cube(heap, sales, dims, mets) ==
    IF AggRaises(heap[sales], heap[dims], heap[mets])
    THEN [heap |-> heap, raised |-> TRUE, ret |-> 0,
          log |-> <<Entry("error", "create_olap_cube")>>]
    ELSE
    Bind(Alloc(heap, Agg(heap[sales], heap[dims], heap[mets])), LAMBDA c :
    Bind([c.heap EXCEPT ![c.ref] =
             SetColumn(@, S(str_sale_ids), SaleIdLists(heap[sales], heap[dims]))],
         LAMBDA h1 :
    Bind(generate_column_names(h1, dims, mets), LAMBDA g :
        IF g.raised
        THEN [heap |-> g.heap, raised |-> TRUE, ret |-> 0,
              log |-> g.log \o <<Entry("error", "create_olap_cube")>>]
        ELSE
        Bind(list_extend(g.heap, g.ret, <<S(str_sale_ids)>>), LAMBDA h2 :
            IF Len(h2[g.ret]) # Len(h2[c.ref].columns)
            THEN [heap |-> h2, raised |-> TRUE, ret |-> 0,
                  log |-> g.log \o <<Entry("error", "create_olap_cube")>>]
            ELSE [heap |-> [h2 EXCEPT ![c.ref].columns = h2[g.ret]],
                  raised |-> FALSE, ret |-> c.ref,
                  log |-> g.log \o <<Entry("info", "create_olap_cube")>>]))))

----------------------------------------------------------------------------
(* revenue_by_region.analyze_top_region *)

\* TotalSales as the largest sale_amount_sum of the region
RegionTotalMax(df, rows) ==
    Extreme(Column(rows, ColIdx(df, S(str_sale_amount_sum))), FALSE)

\* ["sale_amount_sum"].sum() of one region's rows
RegionTotal(df, rows) ==
    I(SumInts(Column(rows, ColIdx(df, S(str_sale_amount_sum)))))

\* cube_df.groupby(["region"])["sale_amount_sum"].sum().reset_index()
SumByRegion(df) ==
    Bind(<<ColIdx(df, S(str_region))>>, LAMBDA idx :
    Bind(GroupKeys(df, idx), LAMBDA keys :
        Frame(<<S(str_region), S(str_sale_amount_sum)>>,
              [g \in 1..Len(keys) |->
                  Bind(GroupOf(df, idx, keys[g]), LAMBDA rows :
                      keys[g] \o <<RegionTotal(df, rows)>>)])))

\* rename(columns={old: new}, inplace=True)
Rename(df, old, new) ==
    [df EXCEPT !.columns =
        [i \in 1..Len(df.columns) |-> IF df.columns[i] = old THEN new ELSE df.columns[i]]]

\* the row order of sort_values(["region", "TotalSales"], ascending=[True, False])
RowBefore(a, b) ==
    \/ ValLess(a[1], b[1])
    \/ a[1] = b[1] /\ ValLess(b[2], a[2])

\* a stable sort of the rows: a row comes after the rows that sort before
\* it and after the earlier rows that sort the same
SortRows(rows) ==
    [p \in 1..Len(rows) |->
        rows[CHOOSE i \in 1..Len(rows) :
                Cardinality({j \in 1..Len(rows) :
                    \/ RowBefore(rows[j], rows[i])
                    \/ j < i /\ ~RowBefore(rows[i], rows[j])}) = p - 1]]

\* .groupby("region").head(1): the first row of every region, in row order
Head1(df) ==
    [df EXCEPT !.rows =
        RowsAt(df.rows,
               {r \in 1..Len(df.rows) :
                   /\ ~IsNull(df.rows[r][1])
                   /\ \A q \in 1..(r - 1) : df.rows[q][1] # df.rows[r][1]})]

\* Returns [heap, raised, ret, log] for the reference cube into heap.
analyze_top_region(heap, cube) ==
    IF \/ ~HasColumn(heap[cube], S(str_region))
       \/ ~HasColumn(heap[cube], S(str_sale_amount_sum))
    THEN [heap |-> heap, raised |-> TRUE, ret |-> 0,
          log |-> <<Entry("error", "analyze_top_region")>>]
    ELSE
    Bind(Alloc(heap, SumByRegion(heap[cube])), LAMBDA g :
    Bind([g.heap EXCEPT ![g.ref] =
             Rename(@, S(str_sale_amount_sum), S(str_TotalSales))], LAMBDA h1 :
    Bind(Alloc(h1, [h1[g.ref] EXCEPT !.rows = SortRows(@)]), LAMBDA sorted :
    Bind(Alloc(sorted.heap, Head1(sorted.heap[sorted.ref])), LAMBDA top :
        [heap |-> top.heap, raised |-> FALSE, ret |-> top.ref,
         log |-> <<Entry("info", "analyze_top_region")>>]))))

----------------------------------------------------------------------------
(* The cube file: DataFrame.to_csv(index=False) and pandas.read_csv *)

\* A file is the sequence of its lines, a line a string without its newline.

Zeros(n) == [i \in 1..n |-> "0"]

\* the digits of a fraction: zero-padded on the left to FracDigits, then
\* without its trailing zeros (one digit at least)
FracText(k) ==
    Bind(Zeros(FracDigits - Len(IntToStr(k))) \o IntToStr(k), LAMBDA d :
        SubSeq(d, 1, Cardinality({i \in 1..Len(d) :
                         i = 1 \/ \E j \in i..Len(d) : d[j] # "0"})))

\* repr of a float: the integer part, a point, the fraction
FloatToStr(m) == IntToStr(m \div Scale) \o <<".">> \o FracText(m % Scale)

\* sep.join(parts) from the i-th part on
RECURSIVE JoinFrom(_, _, _)
JoinFrom(parts, sep, i) ==
    IF i > Len(parts) THEN <<>>
    ELSE IF i = Len(parts) THEN parts[i]
    ELSE parts[i] \o sep \o JoinFrom(parts, sep, i + 1)

Join(parts, sep) == JoinFrom(parts, sep, 1)

\* the text of one cell; a list is written as str(list)
CellText(v) ==
    CASE v.t = "str" -> v.s
      [] v.t = "int" -> IntToStr(v.n)
      [] v.t = "float" -> FloatToStr(v.m)
      [] v.t = "null" -> <<>>
      [] v.t = "list" ->
            <<"[">> \o Join([i \in 1..Len(v.xs) |-> IntToStr(v.xs[i].n)], <<",", " ">>)
                \o <<"]">>

\* every quote of s written twice
DoubleQuotes(s) ==
    Join([i \in 1..Len(s) |-> IF s[i] = "\"" THEN <<"\"", "\"">> ELSE <<s[i]>>], <<>>)

\* csv.QUOTE_MINIMAL
Quote(s) ==
    IF \E i \in 1..Len(s) : s[i] \in {",", "\""}
    THEN <<"\"">> \o DoubleQuotes(s) \o <<"\"">>
    ELSE s

CsvLine(texts) == Join([i \in 1..Len(texts) |-> Quote(texts[i])], <<",">>)

\* to_csv writing the rows without the header line
to_csv_rows_only(df) ==
    [r \in 1..Len(df.rows) |->
        CsvLine([i \in 1..Len(df.rows[r]) |-> CellText(df.rows[r][i])])]

\* cube.to_csv(output_path, index=False)
to_csv(df) ==
    <<CsvLine([i \in 1..Len(df.columns) |-> CellText(df.columns[i])])>>
    \o [r \in 1..Len(df.rows) |->
           CsvLine([i \in 1..Len(df.rows[r]) |-> CellText(df.rows[r][i])])]

\* The fields of one line as the parser splits a line written by to_csv,
\* where a field is quoted as a whole or holds no quote: a comma separates
\* fields when an even number of quotes precedes it, the quotes around a
\* quoted field are dropped and a doubled quote inside it is one quote.
QuotesBefore(line, i) == Cardinality({j \in 1..(i - 1) : line[j] = "\""})

Separators(line) ==
    {i \in 1..Len(line) : line[i] = "," /\ QuotesBefore(line, i) % 2 = 0}

\* the k-th position of a set of positions
Nth(positions, k) ==
    CHOOSE i \in positions : Cardinality({j \in positions : j < i}) = k - 1

Unquote(raw) ==
    IF raw = <<>> \/ raw[1] # "\"" THEN raw
    ELSE RowsAt(raw, {k \in 2..Len(raw) :
                         raw[k] # "\"" \/ QuotesBefore(raw, k) % 2 = 0})

ParseLine(line) ==
    Bind(Separators(line), LAMBDA seps :
        [k \in 1..(Cardinality(seps) + 1) |->
            Unquote(SubSeq(line,
                           IF k = 1 THEN 1 ELSE Nth(seps, k - 1) + 1,
                           IF k = Cardinality(seps) + 1 THEN Len(line)
                           ELSE Nth(seps, k) - 1))])

\* texts that read_csv takes for a missing value (two of its defaults)
NaValues == {<<>>, <<"N", "A">>}

DigitSet == {Digits[i] : i \in 1..Len(Digits)}

AllDigits(s) == s # <<>> /\ \A i \in 1..Len(s) : s[i] \in DigitSet

\* the int of the first i digits of s
RECURSIVE StrToIntUpTo(_, _)
StrToIntUpTo(s, i) ==
    IF i = 0 THEN 0 ELSE 10 * StrToIntUpTo(s, i - 1) + (Ord(s[i]) - Ord("0"))

StrToInt(s) == StrToIntUpTo(s, Len(s))

PointAt(s) == {i \in 1..Len(s) : s[i] = "."}

IsFloatText(s) ==
    /\ Cardinality(PointAt(s)) = 1
    /\ \E p \in PointAt(s) :
          AllDigits(SubSeq(s, 1, p - 1)) /\ AllDigits(SubSeq(s, p + 1, Len(s)))

\* the float of a text, to FracDigits digits
StrToFloat(s) ==
    IF AllDigits(s) THEN StrToInt(s) * Scale
    ELSE Bind(CHOOSE i \in PointAt(s) : TRUE, LAMBDA p :
             StrToInt(SubSeq(s, 1, p - 1)) * Scale
             + StrToInt(SubSeq(SubSeq(s, p + 1, Len(s)) \o Zeros(FracDigits),
                               1, FracDigits)))

\* the values of one column, by the type read_csv infers for it: int64 when
\* every text is an integer, float64 when every text is a number or missing,
\* object (str) otherwise; a missing value is NaN
ParseColumn(texts) ==
    IF \A i \in 1..Len(texts) : AllDigits(texts[i])
    THEN [i \in 1..Len(texts) |-> I(StrToInt(texts[i]))]
    ELSE IF \A i \in 1..Len(texts) :
               texts[i] \in NaValues \/ AllDigits(texts[i]) \/ IsFloatText(texts[i])
    THEN [i \in 1..Len(texts) |->
             IF texts[i] \in NaValues THEN Null ELSE F(StrToFloat(texts[i]))]
    ELSE [i \in 1..Len(texts) |->
             IF texts[i] \in NaValues THEN Null ELSE S(texts[i])]

\* pd.read_csv(file_path) of a file that has a header line; a short line is
\* filled with missing values
read_csv(lines) ==
    Bind(ParseLine(lines[1]), LAMBDA header :
    Bind([r \in 1..(Len(lines) - 1) |-> ParseLine(lines[r + 1])], LAMBDA body :
    Bind([c \in 1..Len(header) |->
             ParseColumn([r \in 1..Len(body) |->
                 IF c <= Len(body[r]) THEN body[r][c] ELSE <<>>])], LAMBDA cols :
        Frame([c \in 1..Len(header) |-> S(header[c])],
              [r \in 1..Len(body) |-> [c \in 1..Len(header) |-> cols[c][r]]]))))

\* A path holds no file, or a file of some lines.
Absent == [exists |-> FALSE, lines |-> <<>>]
File(lines) == [exists |-> TRUE, lines |-> lines]

\* read_csv raises on a missing file, on a file without a header line and on
\* a line with more fields than the header
ReadRaises(file) ==
    \/ ~file.exists
    \/ file.lines = <<>>
    \/ \E r \in 2..Len(file.lines) :
          Len(ParseLine(file.lines[r])) > Len(ParseLine(file.lines[1]))

----------------------------------------------------------------------------
(* What the data warehouse can return *)

Regions == {S(<<"E">>), S(<<"W">>), S(<<"N", "A">>), Null}
ProductIds == {I(1), I(2)}
Amounts == {I(1), I(2)}

\* SELECT * FROM sale INNER JOIN customer: the columns of both tables
JoinColumns ==
    <<S(str_sale_id), S(str_customer_id), S(str_product_id), S(str_sale_amount),
      S(str_customer_id), S(<<"n", "a", "m", "e">>), S(str_region)>>

\* a warehouse whose customer table has no region column
JoinColumnsNoRegion == SubSeq(JoinColumns, 1, Len(JoinColumns) - 1)

\* sale_id is the key of the sale table: row k is sale k
JoinRow(k, product, amount, region) ==
    <<I(k), I(1), product, amount, I(1), S(<<"a">>), region>>

DwRows(n) ==
    {[k \in 1..n |-> JoinRow(k, f[k][1], f[k][2], f[k][3])] :
        f \in [1..n -> ProductIds \X Amounts \X Regions]}

DwTables ==
    UNION {{Frame(JoinColumns, rows) : rows \in DwRows(n)} : n \in 0..MaxRows}
    \cup {Frame(JoinColumnsNoRegion, <<>>)}

----------------------------------------------------------------------------
(* cubing.py: main and its stages *)

Idle(p) == p \in {"ready", "done", "raised"}

\* the records as the logger of one module receives them
From(mod, entries) ==
    [i \in 1..Len(entries) |->
        [mod |-> mod, level |-> entries[i].level, fn |-> entries[i].fn]]

Logged(entries) == log' = log \o From("cubing", entries)

UnchangedReport == UNCHANGED <<pc2, cube_df, top_regions, chart>>

StartCubing ==
    /\ pc = "ready" /\ Idle(pc2)
    /\ pc' = "ingest"
    /\ Logged(<<Entry("info", "main")>>)
    /\ UNCHANGED <<conn, sales_df, dimensions, metrics, olap_cube, column_names,
                   fresh, cube_file>>
    /\ UnchangedReport

\* sqlite3.connect raises: conn is never bound
IngestConnectFails ==
    /\ pc = "ingest"
    /\ pc' = "raised"
    /\ Logged(<<Entry("error", "ingest_sales_data_from_dw")>>)
    /\ UNCHANGED <<conn, sales_df, dimensions, metrics, olap_cube, column_names,
                   fresh, cube_file>>
    /\ UnchangedReport

\* the connection after read_sql_query raised: the handler logs and
\* raises again, and conn.close() was not reached
ConnAfterQueryError == "open"

IngestQueryFails ==
    /\ pc = "ingest"
    /\ conn' = ConnAfterQueryError
    /\ pc' = "raised"
    /\ Logged(<<Entry("error", "ingest_sales_data_from_dw")>>)
    /\ UNCHANGED <<sales_df, dimensions, metrics, olap_cube, column_names,
                   fresh, cube_file>>
    /\ UnchangedReport

IngestOk ==
    /\ pc = "ingest"
    /\ \E table \in DwTables : sales_df' = table
    /\ conn' = "closed"
    /\ pc' = "ingested"
    /\ Logged(<<Entry("info", "ingest_sales_data_from_dw")>>)
    /\ UNCHANGED <<dimensions, metrics, olap_cube, column_names, fresh, cube_file>>
    /\ UnchangedReport

MainDimensions == <<S(str_region), S(str_product_id)>>
MainMetrics == <<[column |-> S(str_sale_amount), list |-> TRUE, fs |-> <<str_sum, str_mean>>]>>

\* main between the stages: the warning on an empty table, then the
\* dimensions and metrics of the cube
MainCheckEmpty ==
    /\ pc = "ingested"
    /\ Logged(IF sales_df.rows = <<>> \/ sales_df.columns = <<>>
              THEN <<Entry("warning", "main")>> ELSE <<>>)
    /\ dimensions' = MainDimensions
    /\ metrics' = MainMetrics
    /\ pc' = "create"
    /\ UNCHANGED <<conn, sales_df, olap_cube, column_names, fresh, cube_file>>
    /\ UnchangedReport

\* main going on to the next stage although the stage raised
PcAfterIgnoring(raised, next) == next

\* an exception leaves main: no later stage runs
PcAfter(raised, next) == IF raised THEN "raised" ELSE next

\* the effect of create_olap_cube(sales_df, dimensions, metrics) on the
\* caller's variables
CreateOlapCubeCall(next) ==
    \E r \in {create_olap_cube(<<sales_df, dimensions, metrics>>, 1, 2, 3)} :
        /\ sales_df' = r.heap[1]
        /\ dimensions' = r.heap[2]
        /\ metrics' = r.heap[3]
        /\ olap_cube' = IF r.raised THEN Raised ELSE r.heap[r.ret]
        /\ fresh' = (~r.raised /\ r.ret \notin {1, 2, 3})
        /\ Logged(r.log)
        /\ pc' = PcAfter(r.raised, next)

MainCreateCube ==
    /\ pc = "create"
    /\ CreateOlapCubeCall("write")
    /\ UNCHANGED <<conn, column_names, cube_file>>
    /\ UnchangedReport

WriteOk ==
    /\ pc = "write"
    /\ cube_file' = File(to_csv(olap_cube))
    /\ Logged(<<Entry("info", "write_cube_to_csv"), Entry("info", "main"),
                Entry("info", "main")>>)
    /\ pc' = "done"
    /\ UNCHANGED <<conn, sales_df, dimensions, metrics, olap_cube, column_names, fresh>>
    /\ UnchangedReport

\* to_csv raises: nothing was written, or the file was opened and is empty
WriteFails ==
    /\ pc = "write"
    /\ cube_file' \in {cube_file, File(<<>>)}
    /\ Logged(<<Entry("error", "write_cube_to_csv")>>)
    /\ pc' = "raised"
    /\ UNCHANGED <<conn, sales_df, dimensions, metrics, olap_cube, column_names, fresh>>
    /\ UnchangedReport

----------------------------------------------------------------------------
(* revenue_by_region.py: main and its stages *)

UnchangedCubing ==
    UNCHANGED <<pc, conn, sales_df, dimensions, metrics, olap_cube, column_names,
                fresh, cube_file>>

LoggedReport(entries) == log' = log \o From("revenue_by_region", entries)

StartReport ==
    /\ pc2 = "ready" /\ Idle(pc)
    /\ pc2' = "load"
    /\ LoggedReport(<<Entry("info", "main")>>)
    /\ UNCHANGED <<cube_df, top_regions, chart>>
    /\ UnchangedCubing

LoadOlapCube ==
    /\ pc2 = "load"
    /\ IF ReadRaises(cube_file)
       THEN /\ cube_df' = Raised
            /\ LoggedReport(<<Entry("error", "load_olap_cube")>>)
            /\ pc2' = "raised"
       ELSE /\ cube_df' = read_csv(cube_file.lines)
            /\ LoggedReport(<<Entry("info", "load_olap_cube")>>)
            /\ pc2' = "analyze"
    /\ UNCHANGED <<top_regions, chart>>
    /\ UnchangedCubing

\* the effect of analyze_top_region(cube) on the caller's variables
AnalyzeCall(cube) ==
    Bind(analyze_top_region(<<cube>>, 1), LAMBDA r :
        [cube |-> r.heap[1], raised |-> r.raised, log |-> r.log,
         fresh |-> ~r.raised /\ r.ret # 1,
         ret |-> IF r.raised THEN Raised ELSE r.heap[r.ret]])

AnalyzeTopRegion ==
    /\ pc2 = "analyze"
    /\ \E r \in {AnalyzeCall(cube_df)} :
           /\ cube_df' = r.cube
           /\ top_regions' = r.ret
           /\ LoggedReport(r.log)
           /\ pc2' = PcAfter(r.raised, "visualize")
    /\ UNCHANGED chart
    /\ UnchangedCubing

VisualizeOk ==
    /\ pc2 = "visualize"
    /\ chart' = top_regions
    /\ LoggedReport(<<Entry("info", "visualize_sales_by_region"), Entry("info", "main")>>)
    /\ pc2' = "done"
    /\ UNCHANGED <<cube_df, top_regions>>
    /\ UnchangedCubing

\* plotting or savefig raises
VisualizeFails ==
    /\ pc2 = "visualize"
    /\ LoggedReport(<<Entry("error", "visualize_sales_by_region")>>)
    /\ pc2' = "raised"
    /\ UNCHANGED <<cube_df, top_regions, chart>>
    /\ UnchangedCubing

----------------------------------------------------------------------------
(* The two entry points, run one at a time, each once *)

Init ==
    /\ pc = "ready" /\ pc2 = "ready"
    /\ conn = "none"
    /\ log = <<>>
    /\ sales_df = Unset /\ dimensions = Unset /\ metrics = Unset
    /\ olap_cube = Unset /\ column_names = Unset /\ fresh = FALSE
    /\ cube_file = Absent
    /\ cube_df = Unset /\ top_regions = Unset /\ chart = Unset

Next ==
    \/ StartCubing
    \/ IngestConnectFails
    \/ IngestQueryFails
    \/ IngestOk
    \/ MainCheckEmpty
    \/ MainCreateCube
    \/ WriteOk
    \/ WriteFails
    \/ StartReport
    \/ LoadOlapCube
    \/ AnalyzeTopRegion
    \/ VisualizeOk
    \/ VisualizeFails

Spec == Init /\ [][Next]_vars

----------------------------------------------------------------------------
(* The functions called on their own, on arguments drawn from bounded sets *)

str_region_ == str_region \o <<"_">>

Seqs(set, n) == UNION {[1..k -> set] : k \in 0..n}

\* generate_column_names: labels with and without a trailing underscore,
\* and a label that is no str; function names, the empty one among them
NameLabels == {S(str_region), S(str_region_), I(1)}
NameFuncs == {str_sum, str_mean, <<>>}
NameKeys == {S(str_sale_amount), I(1)}

Items(key) ==
    {[column |-> key, list |-> FALSE, fs |-> <<f>>] : f \in NameFuncs}
    \cup {[column |-> key, list |-> TRUE, fs |-> fs] : fs \in Seqs(NameFuncs, MaxFuncs)}

NameMetrics ==
    {<<>>}
    \cup UNION {{<<e>> : e \in Items(k)} : k \in NameKeys}
    \cup {<<e1, e2>> : e1 \in Items(S(str_sale_amount)), e2 \in Items(I(1))}

\* create_olap_cube: a frame with the columns of the cube, and two columns
\* labelled with the int 1 and the str "1"
CubeColumns ==
    <<S(str_sale_id), S(str_region), S(str_product_id), S(str_sale_amount),
      I(1), S(<<"1">>)>>

CubeRegions == {S(<<"E">>), S(<<"W">>), Null}

CubeRows(n) ==
    {[k \in 1..n |-> <<I(k), f[k][3], f[k][1], f[k][2], f[k][2], f[k][1]>>] :
        f \in [1..n -> ProductIds \X Amounts \X CubeRegions]}

CubeTables == UNION {{Frame(CubeColumns, rows) : rows \in CubeRows(n)} : n \in 0..MaxRows}

CubeDims == Seqs({S(str_region), S(str_product_id)}, MaxDims)

One(key, f) == [column |-> key, list |-> FALSE, fs |-> <<f>>]
Many(key, fs) == [column |-> key, list |-> TRUE, fs |-> fs]

CubeMetrics ==
    {<<Many(S(str_sale_amount), <<str_sum, str_mean>>)>>,
     <<One(S(str_sale_amount), str_sum)>>,
     <<Many(S(str_sale_amount), <<str_count, str_min, str_max>>)>>,
     <<One(I(1), str_sum), One(S(<<"1">>), str_sum)>>,
     <<Many(I(1), <<str_sum, str_max>>), Many(S(<<"1">>), <<str_sum>>)>>,
     <<Many(S(str_sale_amount), <<str_sum, str_sum>>)>>,
     <<One(S(str_sale_amount), <<>>)>>,
     <<One(S(str_region), str_count)>>}

UnchangedPipeline ==
    UNCHANGED <<conn, cube_file, pc2, cube_df, chart>>

CallGenerateColumnNames ==
    /\ pc = "names"
    /\ \E r \in {generate_column_names(<<dimensions, metrics>>, 1, 2)} :
           /\ dimensions' = r.heap[1]
           /\ metrics' = r.heap[2]
           /\ column_names' = IF r.raised THEN Raised ELSE r.heap[r.ret]
           /\ fresh' = (~r.raised /\ r.ret \notin {1, 2})
           /\ Logged(r.log)
           /\ pc' = PcAfter(r.raised, "names_returned")
    /\ UNCHANGED <<sales_df, olap_cube, top_regions>>
    /\ UnchangedPipeline

CallCreateOlapCube ==
    /\ pc = "cube"
    /\ CreateOlapCubeCall("cube_returned")
    /\ UNCHANGED <<column_names, top_regions>>
    /\ UnchangedPipeline

CallAnalyzeTopRegion ==
    /\ pc = "cube_returned"
    /\ \E r \in {AnalyzeCall(olap_cube)} :
           /\ olap_cube' = r.cube
           /\ top_regions' = r.ret
           /\ fresh' = r.fresh
           /\ Logged(r.log)
           /\ pc' = PcAfter(r.raised, "analyzed")
    /\ UNCHANGED <<sales_df, dimensions, metrics, column_names>>
    /\ UnchangedPipeline

InitCalls ==
    /\ pc2 = "ready" /\ conn = "none" /\ log = <<>> /\ cube_file = Absent
    /\ olap_cube = Unset /\ column_names = Unset /\ fresh = FALSE
    /\ cube_df = Unset /\ top_regions = Unset /\ chart = Unset
    /\ \/ /\ pc = "names"
          /\ sales_df = Unset
          /\ dimensions \in Seqs(NameLabels, MaxDims)
          /\ metrics \in NameMetrics
       \/ /\ pc = "cube"
          /\ sales_df \in CubeTables
          /\ dimensions \in CubeDims
          /\ metrics \in CubeMetrics

NextCalls ==
    \/ CallGenerateColumnNames
    \/ CallCreateOlapCube
    \/ CallAnalyzeTopRegion

SpecCalls == InitCalls /\ [][NextCalls]_vars


----------------------------------------------------------------------------
(* Properties of the functions called on their own (SpecCalls) *)

\* the states of the branch that calls generate_column_names
NamesCall == sales_df = Unset

\* the name "{metric}_{function}" of the i-th (metric, function) pair
PairName(m, i) == Format(Pairs(m)[i].column) \o <<"_">> \o Pairs(m)[i].func

EndsWithSeparator(s) == s # <<>> /\ s[Len(s)] = "_"

\* C8 as stated: generate_column_names returns the dimension names in their
\* given order, then "{metric}_{function}" for each metric in mapping order
\* and each of its functions in listed order, and no returned name ends with
\* a separator.
C8_NamesAsGiven ==
    (NamesCall /\ pc = "names_returned") =>
        /\ column_names =
               dimensions \o [i \in 1..Len(Pairs(metrics)) |-> S(PairName(metrics, i))]
        /\ \A i \in 1..Len(column_names) : ~EndsWithSeparator(column_names[i].s)

\* C8 amended: generate_column_names raises exactly when some dimension
\* label is no str; otherwise it returns one name per dimension, in the
\* given order, then one per (metric, function) pair in mapping and listed
\* order, each of them the dimension name or "{metric}_{function}" with
\* all its trailing underscores removed, so no returned name ends with a
\* separator.
C8_NamesStripped ==
    (NamesCall /\ pc \in {"names_returned", "raised"}) =>
        /\ (pc = "raised") <=> (\E i \in 1..Len(dimensions) : ~IsStr(dimensions[i]))
        /\ pc = "names_returned" =>
              /\ Len(column_names) = Len(dimensions) + Len(Pairs(metrics))
              /\ \A i \in 1..Len(dimensions) :
                     column_names[i] = S(rstrip(dimensions[i].s))
              /\ \A i \in 1..Len(Pairs(metrics)) :
                     column_names[Len(dimensions) + i] = S(rstrip(PairName(metrics, i)))
              /\ \A i \in 1..Len(column_names) : ~EndsWithSeparator(column_names[i].s)

\* a call returned names for a dimension that ends with an underscore and
\* for a metric with an empty function name
C8_Witness ==
    /\ NamesCall /\ pc = "names_returned"
    /\ \E i \in 1..Len(dimensions) : dimensions[i] = S(str_region_)
    /\ \E i \in 1..Len(Pairs(metrics)) : Pairs(metrics)[i].func = <<>>
    /\ Len(column_names) >= 3

\* two different (metric, function) pairs with the same column name
Collides(m) ==
    \E i, j \in 1..Len(Pairs(m)) :
        /\ i # j
        /\ <<Pairs(m)[i].column, Pairs(m)[i].func>>
               # <<Pairs(m)[j].column, Pairs(m)[j].func>>
        /\ PairName(m, i) = PairName(m, j)

\* C3 as stated: create_olap_cube raises whenever two different (metric,
\* function) pairs produce the same column name, and never returns a cube
\* in which two columns share a name.
C3_FailsFastOnCollision ==
    (~NamesCall /\ pc # "cube") =>
        /\ Collides(metrics) => olap_cube = Raised
        /\ IsFrame(olap_cube) =>
              \A i, j \in 1..Len(olap_cube.columns) :
                  i # j => olap_cube.columns[i] # olap_cube.columns[j]

\* C10: a call of generate_column_names, create_olap_cube or
\* analyze_top_region leaves the caller's table, dimensions list and
\* metrics mapping as they were (the cube too, when it is the argument of
\* analyze_top_region), and what the call returns is a new object, none of
\* its arguments.
C10_NoArgumentMutated ==
    [][/\ pc \in {"names", "cube", "cube_returned"} =>
              /\ sales_df' = sales_df
              /\ dimensions' = dimensions
              /\ metrics' = metrics
       /\ pc = "cube_returned" => olap_cube' = olap_cube
       /\ pc' \in {"names_returned", "cube_returned", "analyzed"} => fresh']_vars

\* create_olap_cube returned a cube with rows for two dimensions, and
\* analyze_top_region then returned its table
C10_Witness ==
    /\ pc = "analyzed" /\ fresh
    /\ Len(dimensions) = 2
    /\ IsFrame(olap_cube) /\ olap_cube.rows # <<>>
    /\ IsFrame(top_regions) /\ top_regions.rows # <<>>

\* the values of the dimensions in a row of the input and of the cube
InputKey(row) == [i \in 1..Len(dimensions) |-> row[ColIdx(sales_df, dimensions[i])]]
CubeKey(row) == [i \in 1..Len(dimensions) |-> row[i]]

\* the sale_ids list of a row of the cube
SaleIdsOf(row) == row[Len(row)].xs

\* C1 as stated: for a non-empty table, the cube has exactly one row per
\* combination of dimension values present in the table, and every sale_id
\* of the table occurs exactly once in the sale_ids lists, in the row whose
\* dimension values are those of its record.
C1_SaleIdsPartition ==
    (~NamesCall /\ IsFrame(olap_cube) /\ sales_df.rows # <<>>) =>
        /\ \A r \in 1..Len(sales_df.rows) :
               \E c \in 1..Len(olap_cube.rows) :
                   CubeKey(olap_cube.rows[c]) = InputKey(sales_df.rows[r])
        /\ \A c, d \in 1..Len(olap_cube.rows) :
               CubeKey(olap_cube.rows[c]) = CubeKey(olap_cube.rows[d]) => c = d
        /\ \A c \in 1..Len(olap_cube.rows) :
               \E r \in 1..Len(sales_df.rows) :
                   CubeKey(olap_cube.rows[c]) = InputKey(sales_df.rows[r])
        /\ \A r \in 1..Len(sales_df.rows) :
               /\ Cardinality(
                      {<<c, k>> \in (1..Len(olap_cube.rows)) \X (1..Len(sales_df.rows)) :
                          /\ k <= Len(SaleIdsOf(olap_cube.rows[c]))
                          /\ SaleIdsOf(olap_cube.rows[c])[k]
                                 = sales_df.rows[r][ColIdx(sales_df, S(str_sale_id))]})
                      = 1
               /\ \A c \in 1..Len(olap_cube.rows) :
                      \A k \in 1..Len(SaleIdsOf(olap_cube.rows[c])) :
                          SaleIdsOf(olap_cube.rows[c])[k]
                              = sales_df.rows[r][ColIdx(sales_df, S(str_sale_id))]
                          => CubeKey(olap_cube.rows[c]) = InputKey(sales_df.rows[r])

----------------------------------------------------------------------------
(* Properties of the two entry points (Spec) *)

\* C2 as stated: no execution leaves ingest_sales_data_from_dw with the
\* connection open, whether the query succeeded or raised.
C2_ConnectionClosedOnExit == pc \notin {"ready", "ingest"} => conn # "open"

\* the records of one entry point, in the order they were logged
RunLog(mod) == SelectSeq(log, LAMBDA e : e.mod = mod)

\* the position of a stage in its entry point; main is no stage
StageOf(fn) ==
    CASE fn = "ingest_sales_data_from_dw" -> 1
      [] fn \in {"generate_column_names", "create_olap_cube"} -> 2
      [] fn = "write_cube_to_csv" -> 3
      [] fn = "load_olap_cube" -> 1
      [] fn = "analyze_top_region" -> 2
      [] fn = "visualize_sales_by_region" -> 3
      [] OTHER -> 0

IsStage(e) == StageOf(e.fn) > 0

\* nothing is logged after an error; the stages log in their order, each
\* function once, and each after the stage before it has succeeded
InOrder(run) ==
    /\ \A i, j \in 1..Len(run) :
           i < j =>
               /\ run[i].level # "error"
               /\ (IsStage(run[i]) /\ IsStage(run[j])) =>
                      /\ StageOf(run[i].fn) <= StageOf(run[j].fn)
                      /\ run[i].fn # run[j].fn
    /\ \A j \in 1..Len(run) :
           StageOf(run[j].fn) > 1 =>
               \E i \in 1..(j - 1) :
                   /\ StageOf(run[i].fn) = StageOf(run[j].fn) - 1
                   /\ run[i].level = "info"

Failed(run) == run # <<>> /\ run[Len(run)].level = "error"

FailedIn(run, fn) == Failed(run) /\ run[Len(run)].fn = fn

Succeeded(run, fn) ==
    \E i \in 1..Len(run) : run[i].fn = fn /\ run[i].level = "info"

C5_RoundTrip == IsFrame(cube_df) => cube_df = olap_cube

TotalSalesOf(row) == row[ColIdx(top_regions, S(str_TotalSales))].n

\* C6 as stated: in the table returned by analyze_top_region, the
\* TotalSales of a row is at least the TotalSales of the row after it.
C6_SortedByTotalDescending ==
    IsFrame(top_regions) =>
        \A i \in 1..(Len(top_regions.rows) - 1) :
            TotalSalesOf(top_regions.rows[i]) >= TotalSalesOf(top_regions.rows[i + 1])

RegionOf(row) == row[ColIdx(cube_df, S(str_region))]

\* the sale_amount_sum of the rows of the cube with the region, summed
TotalOf(region) ==
    SumInts([r \in 1..Len(cube_df.rows) |->
                IF RegionOf(cube_df.rows[r]) = region
                THEN cube_df.rows[r][ColIdx(cube_df, S(str_sale_amount_sum))]
                ELSE I(0)])

EmptyIngest ==
    /\ IsFrame(sales_df)
    /\ sales_df.columns = JoinColumns
    /\ sales_df.rows = <<>>

CubeHeader ==
    <<S(str_region), S(str_product_id), S(str_sale_amount_sum),
      S(str_sale_amount \o <<"_">> \o str_mean), S(str_sale_ids)>>

\* C9: when ingest returns the columns of the query and no row, main logs
\* a warning and goes on, create_olap_cube returns a table of zero rows
\* with the generated column names and sale_ids, only the write itself can
\* still fail, and a write that succeeds leaves a file of the header line
\* alone.
C9_EmptyResultTolerated ==
    (EmptyIngest /\ pc # "ingested") =>
        /\ \E i \in 1..Len(log) :
               log[i] = [mod |-> "cubing", level |-> "warning", fn |-> "main"]
        /\ pc = "create" => log[Len(log)].level = "warning"
        /\ pc # "create" =>
               /\ IsFrame(olap_cube)
               /\ olap_cube.rows = <<>>
               /\ olap_cube.columns = CubeHeader
        /\ pc \in {"create", "write", "done", "raised"}
        /\ pc = "raised" => FailedIn(RunLog("cubing"), "write_cube_to_csv")
        /\ pc = "done" =>
               cube_file = File(<<Join([i \in 1..Len(CubeHeader) |-> CubeHeader[i].s],
                                       <<",">>)>>)

\* the run on an empty table ended with the header-only file written
C9_Witness ==
    /\ EmptyIngest /\ pc = "done"
    /\ cube_file.exists /\ Len(cube_file.lines) = 1
    /\ IsFrame(olap_cube) /\ olap_cube.rows = <<>>

=============================================================================
